---- MODULE Spec2Model ----
(***************************************************************************)
(* Model of homework.py: a Telegram bot that polls the Practicum homework  *)
(* API every RETRY_TIME seconds and relays status changes of the most      *)
(* recent homework to one chat.                                            *)
(*                                                                         *)
(* Texts (f-strings of the source) are modelled as the sequence of their   *)
(* pieces; the Russian literals are transliterated to ASCII.  Two texts    *)
(* are equal exactly when their piece sequences are equal: every template  *)
(* of the source starts with a distinct literal and the interpolated       *)
(* values are drawn from sets on which the templates are injective.        *)
(***************************************************************************)
EXTENDS Integers, Sequences, FiniteSets, TLC

(* ------------------------------ bounds --------------------------------- *)
\* number of loop iterations explored
MaxIter == 4
\* longest homeworks list the API returns in the model
MaxHomeworks == 2

(* -------------------------- program constants -------------------------- *)
RETRY_TIME == 600
\* the wall clock (seconds) when main() starts; any positive value
StartTime == 1000

\* os.getenv() yields None for an unset variable, '' for a variable set to
\* the empty string, and the value otherwise
NoneValue == "None"
EnvValues == {NoneValue, "", "token"}

Configs == [PRACTICUM_TOKEN : EnvValues,
            TELEGRAM_TOKEN : EnvValues,
            TELEGRAM_CHAT_ID : EnvValues]

HOMEWORK_STATUSES ==
    [approved |-> "Rabota proverena: revjueru vse ponravilos. Ura!",
     reviewing |-> "Rabota vzyata na proverku revjuerom.",
     rejected |-> "Rabota proverena: u revjuera est zamechaniya."]

(* ------------------------- values of the API --------------------------- *)
\* a dict key that is not present
Absent == "<absent>"
Names == {"hw1", Absent}
StatusCodes == {"approved", "reviewing", "rejected", "expired", Absent}

\* one element of the homeworks list: a JSON object with (possibly absent)
\* keys homework_name and status
HomeworkRecords ==
    [homework_name : Names \ {Absent}, status : StatusCodes]
    \cup {[homework_name |-> Absent, status |-> "approved"]}

\* the older entries of a response (everything after the first element)
OlderRecords == {[homework_name |-> "hw0", status |-> "approved"],
                 [homework_name |-> Absent, status |-> "expired"]}

HomeworkLists ==
    {<<>>} \cup {<<r>> : r \in HomeworkRecords}
           \cup (IF MaxHomeworks >= 2
                 THEN {<<r, o>> : r \in HomeworkRecords, o \in OlderRecords}
                 ELSE {})
           \cup (IF MaxHomeworks >= 3
                 THEN {<<r, o, o>> : r \in HomeworkRecords, o \in OlderRecords}
                 ELSE {})

\* a parsed JSON document: type is the Python type of the value, has_key
\* says whether the dict has the key 'homeworks', hw_type is the Python type
\* of response['homeworks'] and homeworks its value when it is a list
JsonDoc(type, has_key, hw_type, homeworks) ==
    [type |-> type, has_key |-> has_key, hw_type |-> hw_type,
     homeworks |-> homeworks]

JsonDocs ==
    {JsonDoc("list", FALSE, "NoneType", <<>>),
     JsonDoc("dict", FALSE, "NoneType", <<>>),
     JsonDoc("dict", TRUE, "dict", <<>>)}
    \cup {JsonDoc("dict", TRUE, "list", h) : h \in HomeworkLists}

NoDoc == JsonDoc("NoneType", FALSE, "NoneType", <<>>)

\* what requests.get() does: the request cannot be sent, or a response with
\* a status code and a body that is valid JSON or not
HttpOutcome(sent, status_code, valid_json, doc) ==
    [sent |-> sent, status_code |-> status_code, valid_json |-> valid_json,
     doc |-> doc]

HttpOutcomes ==
    {HttpOutcome(FALSE, 0, FALSE, NoDoc)}
    \cup {HttpOutcome(TRUE, c, FALSE, NoDoc) : c \in {503, 404}}
    \cup {HttpOutcome(TRUE, 200, FALSE, NoDoc)}
    \cup {HttpOutcome(TRUE, 200, TRUE, d) : d \in JsonDocs}

\* what bot.send_message() does: "ok", or the text of the telegram error
SendOk == "ok"
SendOutcomes == {SendOk, "Timed out"}

(* ------------------------- results of a call --------------------------- *)
NoException == "None"
Returned(v) == [exc |-> NoException, msg |-> <<>>, val |-> v]
Raised(exc, msg) == [exc |-> exc, msg |-> msg, val |-> <<>>]

\* str() of a status code, as the f-string formats it
StrOfInt(n) ==
    CASE n = 503 -> "503"
      [] n = 404 -> "404"
      [] n = 200 -> "200"
      [] OTHER -> "0"

\* str(type(x))
StrOfType(t) == "<class '" \o t \o "'>"

(* ----------------------------- functions ------------------------------- *)
\* send_message(bot, message): returns on success, raises
\* SendMessageException(error) carrying the transport's error otherwise
send_message(outcome) ==
    IF outcome = SendOk
    THEN Returned(<<>>)
    ELSE Raised("SendMessageException", <<outcome>>)

\* get_api_answer(current_timestamp), the from_date it asks for
from_date(current_timestamp, clock) ==
    IF current_timestamp /= 0 THEN current_timestamp ELSE clock

\* the body parsed before the status code is looked at
get_api_answer_parses_first(http) ==
    IF ~http.sent
    THEN Raised("GetAPIAnswerException",
                <<"Endpoint ", "ENDPOINT", " nedostupen: ", "ConnectionError">>)
    ELSE IF ~http.valid_json
    THEN Raised("JSONDecodeError",
                <<"Expecting value: line 1 column 1 (char 0)">>)
    ELSE IF http.status_code /= 200
    THEN Raised("GetAPIAnswerException",
                <<"Kod otveta API: ", StrOfInt(http.status_code)>>)
    ELSE Returned(http.doc)

\* get_api_answer(current_timestamp), given what requests.get() does
get_api_answer(http) ==
    IF ~http.sent
    THEN Raised("GetAPIAnswerException",
                <<"Endpoint ", "ENDPOINT", " nedostupen: ", "ConnectionError">>)
    ELSE IF http.status_code /= 200
    THEN Raised("GetAPIAnswerException",
                <<"Kod otveta API: ", StrOfInt(http.status_code)>>)
    ELSE IF ~http.valid_json
    THEN Raised("JSONDecodeError", <<"Expecting value: line 1 column 1 (char 0)">>)
    ELSE Returned(http.doc)

\* response.get('homeworks', []) in place of response['homeworks']
check_response_default(response) ==
    IF response.type /= "dict"
    THEN Raised("TypeError",
                <<"Tip dannyh v otvete ot API ne sootvestvuet ozhidaemomu.",
                  " Poluchen: ", StrOfType(response.type)>>)
    ELSE IF ~response.has_key
    THEN Returned(<<>>)
    ELSE IF response.hw_type /= "list"
    THEN Raised("TypeError",
                <<"V otvete ot API domashki prihodyat ne v vide spiska. ",
                  "Poluchen: ", StrOfType(response.hw_type)>>)
    ELSE Returned(response.homeworks)

\* check_response(response)
check_response(response) ==
    IF response.type /= "dict"
    THEN Raised("TypeError",
                <<"Tip dannyh v otvete ot API ne sootvestvuet ozhidaemomu.",
                  " Poluchen: ", StrOfType(response.type)>>)
    ELSE IF ~response.has_key
    THEN Raised("CheckResponseException",
                <<"Kljuch homeworks nedostupen: ", "'homeworks'">>)
    ELSE IF response.hw_type /= "list"
    THEN Raised("TypeError",
                <<"V otvete ot API domashki prihodyat ne v vide spiska. ",
                  "Poluchen: ", StrOfType(response.hw_type)>>)
    ELSE Returned(response.homeworks)

\* the verdict looked up, the homework's name left out of the sentence
parse_status_unnamed(homework) ==
    IF homework.homework_name = Absent
    THEN Raised("KeyError", <<"'homework_name'">>)
    ELSE IF homework.status = Absent
    THEN Raised("KeyError", <<"'status'">>)
    ELSE IF homework.status \in DOMAIN HOMEWORK_STATUSES
    THEN Returned(<<"Izmenilsya status proverki raboty. ",
                    HOMEWORK_STATUSES[homework.status]>>)
    ELSE Raised("ParseStatusException",
                <<"Peredan neizvestnyi status domashnei raboty ", "\"",
                  homework.status, "\"">>)

\* an unknown status reported with the status itself as the verdict
parse_status_lenient(homework) ==
    IF homework.homework_name = Absent
    THEN Raised("KeyError", <<"'homework_name'">>)
    ELSE IF homework.status = Absent
    THEN Raised("KeyError", <<"'status'">>)
    ELSE Returned(<<"Izmenilsya status proverki raboty ", "\"",
                    homework.homework_name, "\". ",
                    IF homework.status \in DOMAIN HOMEWORK_STATUSES
                    THEN HOMEWORK_STATUSES[homework.status]
                    ELSE homework.status>>)

\* parse_status(homework)
parse_status(homework) ==
    IF homework.homework_name = Absent
    THEN Raised("KeyError", <<"'homework_name'">>)
    ELSE IF homework.status = Absent
    THEN Raised("KeyError", <<"'status'">>)
    ELSE IF homework.status \in DOMAIN HOMEWORK_STATUSES
    THEN Returned(<<"Izmenilsya status proverki raboty ", "\"",
                    homework.homework_name, "\". ",
                    HOMEWORK_STATUSES[homework.status]>>)
    ELSE Raised("ParseStatusException",
                <<"Peredan neizvestnyi status domashnei raboty ", "\"",
                  homework.status, "\"">>)

\* the emptiness test left out
no_update_dropped(homework) == FALSE

\* main, line 149: len(homework) == 0
no_update(homework) == Len(homework) = 0

\* the most recent homework looked for at the end of the list
status_of_last(homework) ==
    IF Len(homework) = 0
    THEN Raised("IndexError", <<"list index out of range">>)
    ELSE parse_status(homework[Len(homework)])

\* main, line 152: parse_status(homework[0]); indexing an empty list raises
\* IndexError
status_of_first(homework) ==
    IF Len(homework) = 0
    THEN Raised("IndexError", <<"list index out of range">>)
    ELSE parse_status(homework[1])

\* the comparison left out: every status is sent again
status_unchanged_never(cs, hs) == FALSE

\* main, line 153: current_status == homework_status
status_unchanged(cs, hs) == cs = hs

\* the comparison left out: every error is reported again
error_changed_always(ce, text) == TRUE

\* main, line 162: current_error != str(error)
error_changed(ce, text) == ce /= text

\* the loop over env_variables stopping one key short
check_tokens_two_keys(env) ==
    /\ env.PRACTICUM_TOKEN /= NoneValue
    /\ env.TELEGRAM_TOKEN /= NoneValue

\* check_tokens()
check_tokens(env) ==
    /\ env.PRACTICUM_TOKEN /= NoneValue
    /\ env.TELEGRAM_TOKEN /= NoneValue
    /\ env.TELEGRAM_CHAT_ID /= NoneValue

(* ------------------------------- state --------------------------------- *)
VARIABLES
    env,                \* PRACTICUM_TOKEN, TELEGRAM_TOKEN, TELEGRAM_CHAT_ID
    pc,                 \* where main() is
    exit_cause,         \* the exception main() terminated with, or NoException
    clock,              \* time.time()
    iter,               \* number of loop iterations begun
    current_status,     \* main: current_status
    current_error,      \* main: current_error
    current_timestamp,  \* main: current_timestamp
    homework_status,    \* main: homework_status
    error,              \* main: the exception caught by `except Exception`
    cur,                \* what the iteration in progress has done so far
    prev,               \* what the iteration before it did
    last_delivered,     \* text of the last status message the chat received
    call                \* one call of a function, made outside main()

vars == <<env, pc, exit_cause, clock, iter, current_status, current_error,
          current_timestamp, homework_status, error, cur, prev,
          last_delivered, call>>

NoText == <<>>
NoRecord == [homework_name |-> Absent, status |-> Absent]
NoError == Returned(<<>>)

\* the observations kept about one loop iteration
IterationRecord(begun, fd, status0, error0) ==
    [begun |-> begun,           \* FALSE: no such iteration
     from_date |-> fd,          \* the from_date of its fetch
     status0 |-> status0,       \* current_status when it began
     error0 |-> error0,         \* current_error when it began
     fetched |-> FALSE,         \* check_response returned a list
     nonempty |-> FALSE,        \* and the list has a first element
     first |-> NoRecord,        \* that first element
     second |-> NoRecord,       \* the element after it, if any, for as
                                \* long as the list is in hand: up to the
                                \* step that follows line 156
     failed |-> FALSE,          \* an exception reached `except Exception`
     stage |-> "none",          \* the step that raised it
     err_text |-> NoText,       \* str(error)
     err_new |-> FALSE,         \* it differed from current_error when caught
     err_rerun |-> FALSE,       \* the iteration before failed with the same
     status_sends |-> 0,        \* send_message calls of line 157
     error_sends |-> 0,         \* send_message calls of line 164
     status_delivered |-> 0,    \* calls of line 157 that returned
     error_delivered |-> 0,     \* calls of line 164 that returned
     sleeps |-> 0]              \* time.sleep calls

NoIteration == IterationRecord(FALSE, 0, NoText, NoText)

\* what is kept of an iteration once the next one has begun
Past(c) == [c EXCEPT !.status0 = NoText, !.error0 = NoText]

\* the list of homeworks is out of hand
ListDropped(c) == [c EXCEPT !.second = NoRecord]

\* a call of one of the functions on its own: the function, its argument
\* (the other two arguments are unused), and its result once it is done
FunctionCall(fn, http, response, homework) ==
    [fn |-> fn, http |-> http, response |-> response, homework |-> homework,
     done |-> FALSE, result |-> Returned(<<>>)]

NoCall == FunctionCall("none", HttpOutcome(FALSE, 0, FALSE, NoDoc), NoDoc,
                       NoRecord)

Init ==
    /\ env \in Configs
    /\ pc = "start"
    /\ exit_cause = NoException
    /\ clock = StartTime
    /\ iter = 0
    /\ current_status = NoText
    /\ current_error = NoText
    /\ current_timestamp = 0
    /\ homework_status = NoText
    /\ error = NoError
    /\ cur = NoIteration
    /\ prev = NoIteration
    /\ last_delivered = NoText
    /\ call = NoCall

(* ------------------------------ main() --------------------------------- *)
\* telegram.Bot(token=TELEGRAM_TOKEN): the library rejects a malformed token
\* with InvalidToken; whether the empty string is rejected is the library's
\* choice, so both outcomes are kept
BotOutcomes(token) == IF token = "" THEN {TRUE, FALSE} ELSE {TRUE}

\* lines 138-143: the startup check, the bot and the loop's initial state
Startup ==
    /\ pc = "start"
    /\ IF ~check_tokens(env)
       THEN /\ pc' = "exited"
            /\ exit_cause' = "ValueError"
       ELSE \E bot_ok \in BotOutcomes(env.TELEGRAM_TOKEN) :
                IF bot_ok
                THEN /\ pc' = "poll"
                     /\ exit_cause' = NoException
                ELSE /\ pc' = "exited"
                     /\ exit_cause' = "InvalidToken"
    /\ current_status' = NoText
    /\ current_error' = NoText
    /\ UNCHANGED <<env, clock, iter, current_timestamp, homework_status,
                   error, cur, prev, last_delivered, call>>

\* control reaches `except Exception as error` with exception e, in the
\* iteration recorded as c, that follows the iteration recorded as before
Catch(e, stage, c, before) ==
    /\ error' = e
    /\ pc' = "except"
    /\ cur' = [c EXCEPT !.failed = TRUE, !.stage = stage, !.err_text = e.msg,
                        !.err_new = (e.msg /= current_error),
                        !.err_rerun = (before.failed /\ before.err_text = e.msg)]

\* lines 146-156: Polling, Evaluating, and the comparison with
\* current_status
Poll(http) ==
    /\ pc = "poll"
    /\ iter < MaxIter
    /\ iter' = iter + 1
    /\ prev' = Past(cur)
    /\ current_timestamp' = clock
    /\ LET c0 == IterationRecord(TRUE, from_date(clock, clock),
                                 current_status, current_error)
           response == get_api_answer(http)
       IN  IF response.exc /= NoException
           THEN /\ Catch(response, "poll", c0, cur)
                /\ UNCHANGED <<current_status, homework_status>>
           ELSE
           LET r == check_response(response.val)
           IN  IF r.exc /= NoException
               THEN /\ Catch(r, "evaluate", c0, cur)
                    /\ UNCHANGED <<current_status, homework_status>>
               ELSE
               LET homework == r.val
                   c == [c0 EXCEPT !.fetched = TRUE,
                                   !.nonempty = Len(homework) /= 0,
                                   !.first = IF Len(homework) = 0
                                             THEN NoRecord
                                             ELSE homework[1],
                                   !.second = IF Len(homework) < 2
                                              THEN NoRecord
                                              ELSE homework[2]]
               IN  IF no_update(homework)
                   THEN /\ pc' = "sleep"
                        /\ cur' = c
                        /\ UNCHANGED <<current_status, homework_status,
                                       error>>
                   ELSE
                   LET p == status_of_first(homework)
                   IN  IF p.exc /= NoException
                       THEN /\ Catch(p, "evaluate", c, cur)
                            /\ UNCHANGED <<current_status, homework_status>>
                       ELSE /\ homework_status' = p.val
                            /\ cur' = c
                            /\ UNCHANGED error
                            /\ IF status_unchanged(current_status, p.val)
                               THEN /\ pc' = "sleep"
                                    /\ UNCHANGED current_status
                               ELSE /\ pc' = "notify"
                                    /\ current_status' = p.val
    /\ UNCHANGED <<env, exit_cause, clock, current_error, last_delivered,
                   call>>

\* a send that returned treated as a failure all the same
NotifyStatus_raises_after(outcome) ==
    /\ pc = "notify"
    /\ LET r == send_message(outcome)
           c == [ListDropped(cur) EXCEPT !.status_sends = @ + 1]
       IN  IF r.exc /= NoException
           THEN /\ Catch(r, "notify", c, prev)
                /\ UNCHANGED last_delivered
           ELSE /\ Catch(Raised("SendMessageException", <<"None">>),
                         "notify", [c EXCEPT !.status_delivered = @ + 1],
                         prev)
                /\ last_delivered' = homework_status
    /\ UNCHANGED <<env, exit_cause, clock, iter, current_status,
                   current_error, current_timestamp, homework_status, prev,
                   call>>

\* line 157: Notifying the status
NotifyStatus(outcome) ==
    /\ pc = "notify"
    /\ LET r == send_message(outcome)
           c == [ListDropped(cur) EXCEPT !.status_sends = @ + 1]
       IN  IF r.exc /= NoException
           THEN /\ Catch(r, "notify", c, prev)
                /\ UNCHANGED last_delivered
           ELSE /\ pc' = "sleep"
                /\ cur' = [c EXCEPT !.status_delivered = @ + 1]
                /\ last_delivered' = homework_status
                /\ UNCHANGED error
    /\ UNCHANGED <<env, exit_cause, clock, iter, current_status,
                   current_error, current_timestamp, homework_status, prev,
                   call>>

\* time.sleep(RETRY_TIME): the clock has advanced by RETRY_TIME on return
Slept ==
    /\ clock' = clock + RETRY_TIME
    /\ cur' = [ListDropped(cur) EXCEPT !.sleeps = @ + 1]
    /\ pc' = "poll"

\* the error suppression reset by an iteration without failure
Sleep_resets_error ==
    /\ pc = "sleep"
    /\ Slept
    /\ current_error' = NoText
    /\ UNCHANGED <<env, exit_cause, iter, current_status, current_timestamp,
                   homework_status, error, prev, last_delivered, call>>

\* line 158: Sleeping after an iteration without failure
Sleep ==
    /\ pc = "sleep"
    /\ Slept
    /\ UNCHANGED <<env, exit_cause, iter, current_status, current_error,
                   current_timestamp, homework_status, error, prev,
                   last_delivered, call>>

\* lines 159-164: the error-handling step
HandleError(outcome) ==
    /\ pc = "except"
    /\ LET message == <<"Sboi v rabote programmy: ">> \o error.msg
       IN  IF error_changed(current_error, error.msg)
           THEN /\ current_error' = error.msg
                /\ LET r == send_message(outcome)
                       c == [ListDropped(cur) EXCEPT !.error_sends = @ + 1]
                   IN  IF r.exc /= NoException
                       THEN \* raised inside the except clause: leaves main()
                            /\ pc' = "exited"
                            /\ exit_cause' = r.exc
                            /\ cur' = c
                       ELSE /\ pc' = "sleep_except"
                            /\ cur' = [c EXCEPT !.error_delivered = @ + 1]
                            /\ UNCHANGED exit_cause
           ELSE /\ outcome = SendOk
                /\ pc' = "sleep_except"
                /\ cur' = ListDropped(cur)
                /\ UNCHANGED <<current_error, exit_cause>>
    \* the name `error` is unbound when the except clause is left
    /\ error' = NoError
    /\ UNCHANGED <<env, clock, iter, current_status, current_timestamp,
                   homework_status, prev, last_delivered, call>>

\* line 165: Sleeping after a handled failure
SleepAfterError ==
    /\ pc = "sleep_except"
    /\ Slept
    /\ UNCHANGED <<env, exit_cause, iter, current_status, current_error,
                   current_timestamp, homework_status, error, prev,
                   last_delivered, call>>

Next ==
    \/ Startup
    \/ \E http \in HttpOutcomes : Poll(http)
    \/ \E outcome \in SendOutcomes : NotifyStatus(outcome)
    \/ Sleep
    \/ \E outcome \in SendOutcomes : HandleError(outcome)
    \/ SleepAfterError

Spec == Init /\ [][Next]_vars

TypeOK ==
    /\ env \in Configs
    /\ pc \in {"start", "poll", "notify", "sleep", "except", "sleep_except",
               "exited"}
    /\ iter \in 0..MaxIter
    /\ clock >= StartTime

(* ------------------------------ claims --------------------------------- *)
\* the iteration recorded in cur has ended: main() is back at the top of
\* the loop or has terminated inside the iteration
IterationEnded == cur.begun /\ pc \in {"poll", "exited"}

\* main() is inside `while True`
InLoop == pc \in {"poll", "notify", "sleep", "except", "sleep_except"}

\* C1: when send_message fails while sending the error notification, the
\* failure is swallowed: main() has not terminated.
C1_ErrorReportFailureSwallowed ==
    (cur.error_sends > cur.error_delivered) => pc /= "exited"

\* C2: once the startup check has passed, no failure of Polling, Evaluating
\* or Notifying terminates the process: main() only ever ends by the fatal
\* startup path.
C2_LoopNeverTerminates ==
    pc = "exited" => exit_cause \in {"ValueError", "InvalidToken"}

\* C3: a status notification is attempted in an iteration only if the text
\* extracted from the first record differs from current_status as it was
\* when the iteration began, at most once per iteration; two consecutive
\* iterations with the same first record attempt at most one in total.
C3_StatusSentOnlyOnChange ==
    /\ cur.status_sends <= 1
    /\ cur.status_sends = 1 =>
          /\ cur.nonempty
          /\ parse_status(cur.first).exc = NoException
          /\ parse_status(cur.first).val /= cur.status0
    /\ (prev.begun /\ prev.nonempty /\ cur.nonempty /\ prev.first = cur.first)
          => prev.status_sends + cur.status_sends <= 1

\* C3 witness: the second of two iterations with the same first record has
\* ended, and the first one attempted the notification
C3_Witness ==
    /\ IterationEnded /\ pc = "poll"
    /\ prev.begun /\ prev.nonempty /\ cur.nonempty /\ prev.first = cur.first
    /\ prev.status_sends = 1 /\ cur.status_sends = 0

\* the error-handling step of the iteration recorded in cur is over
ErrorHandled == cur.failed /\ pc /= "except"

Code503 == <<"Kod otveta API: ", "503">>

\* C4 as stated: two consecutive iterations failing with the same text, the
\* first of which begins a run of that text (the iteration before it did not
\* fail with it), produce exactly one error notification.
C4_ExactlyOnePerRun ==
    (/\ ErrorHandled /\ prev.failed /\ cur.err_text = prev.err_text
     /\ ~prev.err_rerun)
        => prev.error_sends + cur.error_sends = 1

\* C4 amended: of two consecutive iterations failing with the same text the
\* second attempts no error notification, and the two together attempt
\* exactly one when the first one's text differed from current_error as it
\* was then, none otherwise; when the second one's text differs from the
\* first one's, the second attempts an error notification.
C4_ErrorDeduplication ==
    (ErrorHandled /\ prev.failed) =>
        IF cur.err_text = prev.err_text
        THEN /\ cur.error_sends = 0
             /\ prev.error_sends + cur.error_sends
                   = (IF prev.err_new THEN 1 ELSE 0)
        ELSE cur.error_sends = 1

\* C4 witness: HTTP 503 twice in a row, notified the first time only
C4_Witness ==
    /\ ErrorHandled /\ pc = "poll" /\ prev.failed
    /\ prev.err_text = Code503 /\ cur.err_text = Code503
    /\ prev.error_sends = 1 /\ prev.error_delivered = 1
    /\ cur.error_sends = 0

\* C5: between iterations current_status is the text of the most recent
\* status notification that was delivered (the empty string if none).
C5_StatusIsLastDelivered ==
    pc = "poll" => current_status = last_delivered

\* C6: the from_date of a fetch is the from_date of the iteration before
\* when that iteration failed, and the current time when it did not.
C6_PollWindowKeptOnFailure ==
    (prev.begun /\ cur.begun) =>
        IF prev.failed
        THEN cur.from_date = prev.from_date
        ELSE cur.from_date = current_timestamp

\* C7: every iteration that has ended, whatever failed in it, has slept
\* exactly once.
C7_SleepsOncePerIteration ==
    IterationEnded => cur.sleeps = 1

\* C8: an iteration whose homeworks list is empty attempts no notification,
\* raises no error and leaves current_status and current_error as they were.
C8_EmptyListIsSilent ==
    (cur.fetched /\ ~cur.nonempty) =>
        /\ cur.status_sends = 0
        /\ cur.error_sends = 0
        /\ ~cur.failed
        /\ pc \in {"sleep", "poll"}
        /\ current_status = cur.status0
        /\ current_error = cur.error0

\* C8 witness: an empty list arrived after a status and an error had been
\* notified, and the iteration is over
C8_Witness ==
    /\ IterationEnded /\ pc = "poll"
    /\ cur.fetched /\ ~cur.nonempty
    /\ cur.status0 /= NoText /\ cur.error0 /= NoText
    /\ cur.sleeps = 1

\* one of the three required values is missing
ConfigMissing ==
    \/ env.PRACTICUM_TOKEN = NoneValue
    \/ env.TELEGRAM_TOKEN = NoneValue
    \/ env.TELEGRAM_CHAT_ID = NoneValue

\* C9: with a required value missing main() fails at startup: the loop is
\* never entered, nothing is fetched and nothing is sent.
C9_MissingConfigIsFatal ==
    ConfigMissing =>
        /\ ~InLoop
        /\ iter = 0 /\ cur = NoIteration
        /\ pc = "exited" => exit_cause = "ValueError"

\* C9 witness: only the chat identifier is missing and main() has failed
C9_Witness ==
    /\ env.PRACTICUM_TOKEN = "token" /\ env.TELEGRAM_TOKEN = "token"
    /\ env.TELEGRAM_CHAT_ID = NoneValue
    /\ pc = "exited" /\ exit_cause = "ValueError"

\* C10: inside the loop all three configuration values are non-empty
\* strings.
C10_LoopNeedsNonEmptyConfig ==
    InLoop =>
        /\ env.PRACTICUM_TOKEN \notin {NoneValue, ""}
        /\ env.TELEGRAM_TOKEN \notin {NoneValue, ""}
        /\ env.TELEGRAM_CHAT_ID \notin {NoneValue, ""}

\* C11: what an iteration with a non-empty list does is a function of the
\* list's first record and of the loop state it began with: whether it
\* fails and with what text, what it sends, and the current_status and
\* current_error it leaves, whatever the older entries are.
C11_OnlyFirstRecordMatters ==
    cur.nonempty =>
        LET p == parse_status(cur.first)
            changed == p.exc = NoException /\ p.val /= cur.status0
            sent == pc \notin {"notify"}
            handled == pc \notin {"notify", "except"}
        IN  /\ p.exc /= NoException =>
                  /\ cur.failed /\ cur.stage = "evaluate"
                  /\ cur.err_text = p.msg
            /\ (p.exc = NoException /\ ~changed) => ~cur.failed
            /\ cur.failed => (cur.stage = "evaluate" \/ changed)
            /\ current_status = (IF changed THEN p.val ELSE cur.status0)
            /\ cur.status_sends = (IF changed /\ sent THEN 1 ELSE 0)
            /\ cur.error_sends =
                  (IF cur.failed /\ handled /\ cur.err_text /= cur.error0
                   THEN 1 ELSE 0)
            /\ current_error =
                  (IF cur.failed /\ handled THEN cur.err_text ELSE cur.error0)

\* C11 witness: the first record is a known status that is new, the entry
\* after it has no name and an unknown status, and the status is on its way
\* to the chat
C11_Witness ==
    /\ pc = "notify" /\ cur.nonempty
    /\ cur.first.status = "approved"
    /\ cur.second.homework_name = Absent /\ cur.second.status = "expired"
    /\ current_status = parse_status(cur.first).val

\* C15: an iteration that fails in Polling or Evaluating attempts no status
\* notification and leaves current_status as it was, and a first record
\* with a status outside the catalog makes the iteration fail so; a status
\* equal to current_status is then still suppressed in the next iteration.
C15_FailureKeepsStatus ==
    /\ (cur.failed /\ cur.stage \in {"poll", "evaluate"}) =>
          /\ cur.status_sends = 0
          /\ current_status = cur.status0
    /\ (cur.nonempty /\ cur.first.homework_name /= Absent
        /\ cur.first.status \notin {"approved", "reviewing", "rejected"}) =>
          /\ cur.failed /\ cur.stage = "evaluate"
          /\ cur.status_sends = 0
    /\ (/\ prev.failed /\ prev.stage \in {"poll", "evaluate"}
        /\ cur.nonempty
        /\ parse_status(cur.first).exc = NoException
        /\ parse_status(cur.first).val = cur.status0) =>
          cur.status_sends = 0

\* C15 witness: a delivered status, then an iteration failing on an unknown
\* status, then the delivered status observed again and not sent
C15_Witness ==
    /\ IterationEnded /\ pc = "poll"
    /\ prev.failed /\ prev.stage = "evaluate"
    /\ prev.first.status = "expired" /\ prev.status_sends = 0
    /\ cur.nonempty /\ ~cur.failed
    /\ cur.status0 /= NoText /\ cur.status0 = last_delivered
    /\ parse_status(cur.first).val = cur.status0
    /\ cur.status_sends = 0

\* C16: an iteration without failure leaves current_error as it was, and an
\* error whose text equals current_error is not notified, also when
\* iterations without failure lie between it and the notified one.
C16_SuccessKeepsErrorText ==
    /\ (cur.begun /\ ~cur.failed) => current_error = cur.error0
    /\ (ErrorHandled /\ cur.err_text = cur.error0) => cur.error_sends = 0

\* C16 witness: HTTP 503 was notified, an iteration without failure
\* followed, and HTTP 503 has come back without a notification
C16_Witness ==
    /\ ErrorHandled /\ pc = "poll"
    /\ prev.begun /\ ~prev.failed
    /\ cur.err_text = Code503 /\ cur.error0 = Code503
    /\ cur.error_sends = 0

\* C17: an iteration makes at most one status send and at most one error
\* send, the error send only if the status send or an earlier step failed,
\* and at most one of its sends returns.
C17_AtMostTwoSendsOneDelivery ==
    /\ cur.status_sends <= 1
    /\ cur.error_sends <= 1
    /\ cur.status_sends + cur.error_sends <= 2
    /\ cur.error_sends = 1 => cur.failed
    /\ (cur.status_sends = 1 /\ cur.error_sends = 1) =>
          /\ cur.stage = "notify"
          /\ cur.status_delivered = 0
    /\ cur.status_delivered <= cur.status_sends
    /\ cur.error_delivered <= cur.error_sends
    /\ cur.status_delivered + cur.error_delivered <= 1

\* C17 witness: the status send failed and the error send was delivered
C17_Witness ==
    /\ IterationEnded /\ pc = "poll"
    /\ cur.status_sends = 1 /\ cur.status_delivered = 0
    /\ cur.error_sends = 1 /\ cur.error_delivered = 1

(* ----------------------- the functions on their own -------------------- *)
\* the arguments the functions are called with
FnNames == {"hw1", "hw2", Absent}
FnRecords == [homework_name : FnNames, status : StatusCodes]

FnDocs ==
    JsonDocs \cup {JsonDoc("str", FALSE, "NoneType", <<>>),
                   JsonDoc("NoneType", FALSE, "NoneType", <<>>),
                   JsonDoc("dict", TRUE, "NoneType", <<>>),
                   JsonDoc("dict", TRUE, "str", <<>>)}

FnHttpOutcomes ==
    {HttpOutcome(FALSE, 0, FALSE, NoDoc)}
    \cup {HttpOutcome(TRUE, c, FALSE, NoDoc) : c \in {200, 404, 503}}
    \cup {HttpOutcome(TRUE, c, TRUE, d) : c \in {200, 404, 503}, d \in FnDocs}

NoHttp == HttpOutcome(FALSE, 0, FALSE, NoDoc)

main_vars == <<env, pc, exit_cause, clock, iter, current_status,
               current_error, current_timestamp, homework_status, error,
               cur, prev, last_delivered>>

\* main() is not run; one function is about to be called with one argument
FnInit ==
    /\ env = [PRACTICUM_TOKEN |-> "token", TELEGRAM_TOKEN |-> "token",
              TELEGRAM_CHAT_ID |-> "token"]
    /\ pc = "start"
    /\ exit_cause = NoException
    /\ clock = StartTime
    /\ iter = 0
    /\ current_status = NoText
    /\ current_error = NoText
    /\ current_timestamp = 0
    /\ homework_status = NoText
    /\ error = NoError
    /\ cur = NoIteration
    /\ prev = NoIteration
    /\ last_delivered = NoText
    /\ \/ \E h \in FnHttpOutcomes :
              call = FunctionCall("get_api_answer", h, NoDoc, NoRecord)
       \/ \E d \in FnDocs :
              call = FunctionCall("check_response", NoHttp, d, NoRecord)
       \/ \E r \in FnRecords :
              call = FunctionCall("parse_status", NoHttp, NoDoc, r)

CallGetApiAnswer ==
    /\ call.fn = "get_api_answer" /\ ~call.done
    /\ call' = [call EXCEPT !.done = TRUE,
                            !.result = get_api_answer(call.http)]
    /\ UNCHANGED main_vars

CallCheckResponse ==
    /\ call.fn = "check_response" /\ ~call.done
    /\ call' = [call EXCEPT !.done = TRUE,
                            !.result = check_response(call.response)]
    /\ UNCHANGED main_vars

CallParseStatus ==
    /\ call.fn = "parse_status" /\ ~call.done
    /\ call' = [call EXCEPT !.done = TRUE,
                            !.result = parse_status(call.homework)]
    /\ UNCHANGED main_vars

FnNext ==
    \/ CallGetApiAnswer
    \/ CallCheckResponse
    \/ CallParseStatus

FnSpec == FnInit /\ [][FnNext]_vars

\* the text contains the piece
Contains(text, piece) == \E i \in DOMAIN text : text[i] = piece

\* C12: parse_status of a record with a name and a status returns exactly
\* when the status is approved, reviewing or rejected; the text it returns
\* contains the homework's name and the catalog's verdict for the status;
\* otherwise it raises ParseStatusException with the status in its message.
C12_ParseStatusByCatalog ==
    (/\ call.fn = "parse_status" /\ call.done
     /\ call.homework.homework_name /= Absent
     /\ call.homework.status /= Absent) =>
        LET h == call.homework
            r == call.result
            known == h.status \in {"approved", "reviewing", "rejected"}
        IN  /\ (r.exc = NoException) <=> known
            /\ known =>
                  /\ Contains(r.val, h.homework_name)
                  /\ Contains(r.val, HOMEWORK_STATUSES[h.status])
                  /\ \A other \in DOMAIN HOMEWORK_STATUSES \ {h.status} :
                         ~Contains(r.val, HOMEWORK_STATUSES[other])
            /\ ~known =>
                  /\ r.exc = "ParseStatusException"
                  /\ Contains(r.msg, h.status)

\* C12 witness: a rejected homework described
C12_Witness ==
    /\ call.fn = "parse_status" /\ call.done
    /\ call.homework = [homework_name |-> "hw2", status |-> "rejected"]
    /\ call.result.exc = NoException

\* the exceptions check_response reports a malformed response with
SchemaErrors == {"TypeError", "CheckResponseException"}

\* C13: check_response raises a schema error naming the type when the
\* response is not a dict, one naming the key when the dict has no key
\* 'homeworks', one naming the value's type when the value is not a list,
\* and returns the list as it is otherwise.
C13_CheckResponseShape ==
    (call.fn = "check_response" /\ call.done) =>
        LET d == call.response
            r == call.result
        IN  IF d.type /= "dict"
            THEN /\ r.exc \in SchemaErrors
                 /\ Contains(r.msg, StrOfType(d.type))
            ELSE IF ~d.has_key
            THEN /\ r.exc \in SchemaErrors
                 /\ Contains(r.msg, "'homeworks'")
            ELSE IF d.hw_type /= "list"
            THEN /\ r.exc \in SchemaErrors
                 /\ Contains(r.msg, StrOfType(d.hw_type))
                 /\ ~Contains(r.msg, "'homeworks'")
            ELSE /\ r.exc = NoException
                 /\ r.val = d.homeworks

\* C13 witness: a list of two homeworks returned
C13_Witness ==
    /\ call.fn = "check_response" /\ call.done
    /\ call.result.exc = NoException
    /\ Len(call.result.val) = 2
    /\ call.result.val = call.response.homeworks

\* C14: get_api_answer raises GetAPIAnswerException when the request
\* cannot be sent and when the status code is not 200, whatever the body
\* is; with status code 200 it raises the JSON decode error of a body that
\* is not JSON, and returns the parsed document, of any shape, otherwise.
C14_GetApiAnswerOutcomes ==
    (call.fn = "get_api_answer" /\ call.done) =>
        LET h == call.http
            r == call.result
        IN  IF ~h.sent
            THEN r.exc = "GetAPIAnswerException"
            ELSE IF h.status_code /= 200
            THEN /\ r.exc = "GetAPIAnswerException"
                 /\ Contains(r.msg, StrOfInt(h.status_code))
            ELSE IF ~h.valid_json
            THEN r.exc = "JSONDecodeError"
            ELSE /\ r.exc = NoException
                 /\ r.val = h.doc

\* C14 witness: HTTP 503 with a body that is not JSON
C14_Witness ==
    /\ call.fn = "get_api_answer" /\ call.done
    /\ call.http.sent /\ call.http.status_code = 503
    /\ ~call.http.valid_json
    /\ call.result.exc = "GetAPIAnswerException"

====
